---------------------------- MODULE Spec2Model ----------------------------
(***************************************************************************)
(* A model of read_snapshot.cpp: load_snapshot, alloc_parts and            *)
(* free_parts, together with a caller that pages through a snapshot and    *)
(* releases every buffer a load handed back.                                *)
(*                                                                         *)
(* Numbers.  int64_t values (StartPart, MaxRead, NumPart, GetNpart) are    *)
(* unbounded integers.  The build's int is 32 bits wide; here it is        *)
(* IntBits bits wide, so that the same three regimes occur on counts the   *)
(* model can enumerate: np*3 fits, np*3 overflows int, NumPart does not    *)
(* fit int.  A double is an integer, a float is a multiple of FloatUlp,    *)
(* and storing a double into a float rounds it (ToFloat).                  *)
(***************************************************************************)
EXTENDS Integers, Sequences, FiniteSets, TLC

(* ------------------------------ bounds --------------------------------- *)

\* Width of the model's int (32 in the build).
IntBits == 5

\* Distance between neighbouring floats on the model's double scale.
FloatUlp == 2

\* Particles of every type other than the target one.
OtherNpart == 1

\* The on-disk MASS slice of the target type is uniform (0) or its particle
\* number d, 1 <= d <= MaxDev, carries another mass.
MaxDev == 2

(* --------------------------- program constants ------------------------- *)

\* gadgetreader.hpp: the number of particle types, (1<<N_TYPE)-1 in the masks.
N_TYPE == 6

NULL == 0

(* ------------------------------ arithmetic ----------------------------- *)

RECURSIVE Pow2(_)
Pow2(n) == IF n = 0 THEN 1 ELSE 2 * Pow2(n - 1)

IntMin == 0 - Pow2(IntBits - 1)

IntMax == Pow2(IntBits - 1) - 1

\* int64_t -> int at the call alloc_parts(P, NumPart): the low bits, signed.
ToInt(x) == ((x - IntMin) % Pow2(IntBits)) + IntMin

Min(a, b) == IF a < b THEN a ELSE b

\* double -> float, as in (*P).Mass[i] = snap.GetHeader().mass[PARTTYPE].
ToFloat(x) == x - (x % FloatUlp)

Types == 0 .. (N_TYPE - 1)

(* ------------------------------- state --------------------------------- *)

VARIABLES
  PARTTYPE,     \* parameters.h: the particle type this build loads
  GADGET3,      \* #ifdef GADGET3
  HELIUM,       \* #ifdef HELIUM
  header,       \* snap.GetHeader(): npart, mass, flag_cooling
  massDev,      \* which particle of the MASS slice deviates (0: none)
  script,       \* the caller's remaining requests <<StartPart, MaxRead>>
  paging,       \* the caller's script is [0,k), [k,N), [0,N)
  results,      \* what the caller kept of each load that returned a count > 0
  StartPart,
  MaxRead,
  pc,           \* where the process is
  NumPart,
  P,            \* pdata: field -> pointer
  mem,          \* pointer target of each field: capacity in floats and content
  live,         \* pointers malloc returned and free has not yet taken back
  nextPtr,
  reads,        \* the GetBlock calls of the current load, in order
  trail,        \* the steps of the current load, in order
  allocRet,     \* alloc_parts's return value in the current load (-1: not called)
  acquired,     \* pointers the current load's alloc_parts obtained
  freeLog,      \* pointers the last free_parts handed to free, in order
  doubleFree,   \* free was given a pointer that is not live
  oob,          \* the current load wrote or read past a capacity
  massPass,     \* outcome of the mass-uniformity scan ("none" before it)
  omegab,       \* <<Mass[0], mass[1]>> once *omegab is assigned, else <<>>
  ret           \* load_snapshot's return value (-1: none yet)

vars == <<PARTTYPE, GADGET3, HELIUM, header, massDev, script, paging, results,
          StartPart, MaxRead, pc, NumPart, P, mem, live, nextPtr, reads, trail,
          allocRet, acquired, freeLog, doubleFree, oob, massPass, omegab, ret>>

build == <<PARTTYPE, GADGET3, HELIUM>>

snapshot == <<header, massDev>>

(* ------------------------------- pdata --------------------------------- *)

Fields == {"Vel", "Pos", "Mass", "U", "NH0", "Ne", "NHep", "h"}

\* Floats per particle of a field: np*3 for Vel and Pos, np for the others.
Width(f) == IF f \in {"Vel", "Pos"} THEN 3 ELSE 1

\* The mallocs of alloc_parts, in the order of its && chain.
AllocOrder ==
  <<"Vel", "Pos", "Mass", "U", "NH0", "Ne">> \o
  (IF HELIUM THEN <<"NHep">> ELSE <<>>) \o <<"h">>

\* free_parts without the free of NHep.
FreeOrderNoHelium == <<"Vel", "Pos", "Mass", "U", "NH0", "Ne", "h">>

\* The frees of free_parts, in order.
FreeOrder ==
  <<"Vel", "Pos", "Mass", "U", "NH0", "Ne", "h">> \o
  (IF HELIUM THEN <<"NHep">> ELSE <<>>)

Range(s) == {s[i] : i \in DOMAIN s}

(* ------------------------- the snapshot on disk ------------------------ *)

Npart(t) == header.npart[t]

TagIndex(tag) ==
  CASE tag = "POS " -> 1 [] tag = "VEL " -> 2 [] tag = "MASS" -> 3
    [] tag = "U   " -> 4 [] tag = "NHP " -> 5 [] tag = "NHEP" -> 6
    [] tag = "NHEQ" -> 7 [] tag = "NE  " -> 8 [] tag = "NHE " -> 9
    [] tag = "NH  " -> 10 [] tag = "HSML" -> 11

TagWidth(tag) == IF tag \in {"POS ", "VEL "} THEN 3 ELSE 1

\* Component c of particle j (from 0) of type t in block tag: a float. Every
\* block, particle and component has a value of its own, but for MASS, which
\* is one value per type unless massDev names a particle of the target type.
DiskValue(tag, t, j, c) ==
  IF tag = "MASS"
    THEN FloatUlp * (IF t = PARTTYPE /\ massDev = j + 1 THEN 5 ELSE 3 + t)
    ELSE FloatUlp * (1000 * TagIndex(tag) + 150 * t + 3 * j + c)

\* The particle types a block stores: every type for POS and VEL, the types
\* without a header mass for MASS, gas alone for the gas-physics blocks.
BlockTypes(tag) ==
  {t \in Types :
     /\ Npart(t) > 0
     /\ \/ tag \in {"POS ", "VEL "}
        \/ tag = "MASS" /\ header.mass[t] = 0
        \/ tag \notin {"POS ", "VEL ", "MASS"} /\ t = 0}

TypeData(tag, t) ==
  [i \in 1 .. (Npart(t) * TagWidth(tag)) |->
     DiskValue(tag, t, (i - 1) \div TagWidth(tag), (i - 1) % TagWidth(tag))]

\* Bit t of a skip mask.
Skipped(skip, t) == (skip \div Pow2(t)) % 2 = 1

\* The block's data of the types the mask lets through, in type order.
RECURSIVE Gather(_, _, _)
Gather(tag, t, skip) ==
  IF t = N_TYPE THEN <<>>
  ELSE (IF t \in BlockTypes(tag) /\ ~Skipped(skip, t)
          THEN TypeData(tag, t) ELSE <<>>) \o Gather(tag, t + 1, skip)

\* GSnap::GetBlock(tag, dest, npart_toread, start_part, skip_type): the data
\* of particles start .. start+count-1 among the particles let through.
GetBlock(tag, count, start, skip) ==
  LET all == Gather(tag, 0, skip)
      w == TagWidth(tag)
  IN  IF count <= 0 \/ start < 0 THEN <<>>
      ELSE SubSeq(all, start * w + 1, Min((start + count) * w, Len(all)))

(* --------------------------- load_snapshot ----------------------------- *)

\* ResolveCount without the std::min against what is left of the type.
ResolveCountNoMin(avail, start, maxread) ==
  IF maxread > 0 THEN maxread ELSE avail - start

\* Lines 40-43: the particle count of the requested window.
ResolveCount(avail, start, maxread) ==
  IF maxread > 0 THEN Min(maxread, avail - start) ELSE avail - start

\* Lines 60-61: (1<<N_TYPE)-1-(1<<PARTTYPE).
PosVelSkip == Pow2(N_TYPE) - 1 - Pow2(PARTTYPE)

\* Lines 68-71: the loop takes bit i out for every type with a header mass.
RECURSIVE MassSkipLoop(_, _)
MassSkipLoop(skip, i) ==
  IF i = N_TYPE THEN skip
  ELSE MassSkipLoop(IF header.mass[i] # 0 THEN skip - Pow2(i) ELSE skip, i + 1)

MassSkip == MassSkipLoop(PosVelSkip, 0)

\* The gas-physics branch taken for every particle type.
IsGasAlways == TRUE

\* Line 81: if(PARTTYPE == 0).
IsGas == PARTTYPE = 0

Prefix(s, n) == SubSeq(s, 1, Min(Len(s), n))

\* A loop for(int i=0; i<NumPart; i++) over a field, or a GetBlock of count
\* particles into it, stays inside the field's allocation.
Fits(f, count) == count * Width(f) <= mem[f].cap /\ count <= IntMax

Step(name) == trail' = Append(trail, name)

Logged(tag, f, skip) ==
  reads' = Append(reads, [tag |-> tag, dest |-> f, count |-> NumPart,
                          start |-> StartPart, skip |-> skip])

\* snap.GetBlock(tag, (*P).f, NumPart, StartPart, skip), then on to pc next.
\* Past the allocation the write is undefined: the process dies of it or
\* goes on with what fitted.
ReadBlock(tag, f, skip, next) ==
  LET d == GetBlock(tag, NumPart, StartPart, skip) IN
  /\ Logged(tag, f, skip)
  /\ IF Fits(f, NumPart)
       THEN /\ mem' = [mem EXCEPT ![f].data = d]
            /\ pc' = next
            /\ oob' = oob
       ELSE /\ oob' = TRUE
            /\ \/ pc' = "crashed" /\ mem' = mem
               \/ /\ pc' = next
                  /\ mem' = [mem EXCEPT ![f].data = Prefix(d, mem[f].cap)]

\* What a step of the load leaves alone, besides what it names itself.
LoadFrame ==
  UNCHANGED <<build, snapshot, script, paging, results, StartPart, MaxRead,
              freeLog, doubleFree>>

\* Lines 35-39: the header scalars (*atime, *redshift, *box100, *h100, *Hz).
ReadHeader ==
  /\ pc = "header"
  /\ Step("header")
  /\ pc' = "resolve"
  /\ LoadFrame
  /\ UNCHANGED <<NumPart, P, mem, live, nextPtr, reads, allocRet, acquired,
                 oob, massPass, omegab, ret>>

\* Lines 40-45: NumPart, and return 0 when it is 0.
ResolveRange ==
  LET n == ResolveCount(Npart(PARTTYPE), StartPart, MaxRead) IN
  /\ pc = "resolve"
  /\ Step("resolve")
  /\ NumPart' = n
  /\ IF n = 0 THEN pc' = "returned" /\ ret' = 0
              ELSE pc' = "alloc" /\ ret' = ret
  /\ LoadFrame
  /\ UNCHANGED <<P, mem, live, nextPtr, reads, allocRet, acquired, oob,
                 massPass, omegab>>

\* np*3 in int. A product int cannot hold is undefined: the build wraps it
\* or carries it out in the wider size_t arithmetic that follows.
VecRequests(np) ==
  IF np * 3 \in IntMin .. IntMax THEN {np * 3} ELSE {ToInt(np * 3), np * 3}

\* Lines 160-172: alloc_parts(P, np) asks malloc for each field in turn and
\* stops at the first NULL. A negative element count becomes a byte count
\* near the top of size_t, which no malloc grants; any malloc may fail.
alloc_parts(np, vreq, failAt) ==
  LET order == AllocOrder
      n == Len(order)
      Request(f) == IF Width(f) = 3 THEN vreq ELSE np
      got == 1 .. (failAt - 1)
      Slot(f) == CHOOSE i \in 1 .. n : order[i] = f
  IN  /\ failAt \in 1 .. (n + 1)
      /\ \A i \in got : Request(order[i]) >= 0
      /\ P' = [f \in Fields |->
                 IF f \notin Range(order) THEN P[f]
                 ELSE IF Slot(f) \in got THEN nextPtr + Slot(f) - 1
                 ELSE IF Slot(f) = failAt THEN NULL
                 ELSE P[f]]
      /\ mem' = [f \in Fields |->
                   IF f \in Range(order) /\ Slot(f) \in got
                     THEN [cap |-> Request(f), data |-> <<>>]
                     ELSE mem[f]]
      /\ live' = live \cup {nextPtr + i - 1 : i \in got}
      /\ acquired' = {nextPtr + i - 1 : i \in got}
      /\ nextPtr' = nextPtr + failAt - 1
      /\ allocRet' = IF failAt = n + 1 THEN 1 ELSE 0

\* Line 54: if(!(alloc_parts(P,NumPart))), NumPart narrowed to int.
AllocateBuffer ==
  /\ pc = "alloc"
  /\ Step("alloc")
  /\ \E vreq \in VecRequests(ToInt(NumPart)) :
       \E failAt \in 1 .. (Len(AllocOrder) + 1) :
          alloc_parts(ToInt(NumPart), vreq, failAt)
  /\ pc' = IF allocRet' = 1 THEN "pos" ELSE "allocfail"
  /\ LoadFrame
  /\ UNCHANGED <<NumPart, reads, oob, massPass, omegab, ret>>

\* Lines 55-58: "failed to allocate memory." and exit(1).
ExitAllocFailed ==
  /\ pc = "allocfail"
  /\ pc' = "exit1"
  /\ LoadFrame
  /\ UNCHANGED <<NumPart, P, mem, live, nextPtr, reads, trail, allocRet,
                 acquired, oob, massPass, omegab, ret>>

ReadFrame ==
  /\ LoadFrame
  /\ UNCHANGED <<NumPart, P, live, nextPtr, allocRet, acquired, massPass,
                 omegab, ret>>

\* Line 60.
ReadPos ==
  /\ pc = "pos"
  /\ Step("POS ")
  /\ ReadBlock("POS ", "Pos", PosVelSkip, "vel")
  /\ ReadFrame

\* Line 61.
ReadVel ==
  /\ pc = "vel"
  /\ Step("VEL ")
  /\ ReadBlock("VEL ", "Vel", PosVelSkip, "mass")
  /\ ReadFrame

\* Lines 63-73: the header's mass for every particle, or the MASS block.
ResolveMass ==
  /\ pc = "mass"
  /\ Step("mass")
  /\ IF header.mass[PARTTYPE] # 0
       THEN LET fill == [i \in 1 .. NumPart |-> ToFloat(header.mass[PARTTYPE])]
            IN  /\ reads' = reads
                /\ IF Fits("Mass", NumPart)
                     THEN /\ mem' = [mem EXCEPT !["Mass"].data = fill]
                          /\ pc' = "check"
                          /\ oob' = oob
                     ELSE /\ oob' = TRUE
                          /\ \/ pc' = "crashed" /\ mem' = mem
                             \/ /\ pc' = "check"
                                /\ mem' = [mem EXCEPT !["Mass"].data =
                                             Prefix(fill, mem["Mass"].cap)]
       ELSE ReadBlock("MASS", "Mass", MassSkip, "check")
  /\ ReadFrame

\* Lines 74-78: exit(0) at the first Mass[i] != Mass[0]. A scan that leaves
\* the allocation reads whatever lies there.
CheckMass ==
  LET m == mem["Mass"].data
      inside == Fits("Mass", NumPart) /\ Len(m) >= NumPart
      uniform == \A i \in 1 .. NumPart : m[i] = m[1]
  IN  /\ pc = "check"
      /\ Step("check")
      /\ \E verdict \in {"pass", "fail", "crash"} :
           /\ inside => verdict = (IF uniform THEN "pass" ELSE "fail")
           /\ massPass' = verdict
           /\ pc' = CASE verdict = "pass" -> "omegab"
                      [] verdict = "fail" -> "exit0"
                      [] verdict = "crash" -> "crashed"
      /\ oob' = (oob \/ ~inside)
      /\ LoadFrame
      /\ UNCHANGED <<NumPart, P, mem, live, nextPtr, reads, allocRet,
                     acquired, omegab, ret>>

\* Line 79: *omegab from Mass[0], mass[1] and Omega0.
ComputeOmegab ==
  LET m == mem["Mass"].data IN
  /\ pc = "omegab"
  /\ Step("omegab")
  /\ \E stray \in {0, FloatUlp} :
       omegab' = <<IF Len(m) >= 1 THEN m[1] ELSE stray, header.mass[1]>>
  /\ oob' = (oob \/ mem["Mass"].cap < 1)
  /\ pc' = IF IsGas THEN "u" ELSE "return"
  /\ LoadFrame
  /\ UNCHANGED <<NumPart, P, mem, live, nextPtr, reads, allocRet, acquired,
                 massPass, ret>>

\* Line 84.
ReadU ==
  /\ pc = "u"
  /\ Step("U   ")
  /\ ReadBlock("U   ", "U", 0, IF header.flag_cooling THEN "ne" ELSE "hsml")
  /\ ReadFrame

\* Lines 97-103: Ne[k] += h[k], then Ne[k] += 2*h[k], over the first n.
Combine(nhp, nhep, nheq, n) ==
  [k \in 1 .. n |-> (nhp[k] + nhep[k]) + 2 * nheq[k]]

Entry(tag, f) ==
  [tag |-> tag, dest |-> f, count |-> NumPart, start |-> StartPart, skip |-> 0]

\* Lines 86-106: the free electron fraction. Without GADGET3 it is summed
\* from NHP, NHEP and NHEQ, the last two read into the space of (*P).h.
ReadElectronFraction ==
  LET next == IF HELIUM THEN "nhe" ELSE "nh"
      nhp == GetBlock("NHP ", NumPart, StartPart, 0)
      nhep == GetBlock("NHEP", NumPart, StartPart, 0)
      nheq == GetBlock("NHEQ", NumPart, StartPart, 0)
      room == Min(mem["Ne"].cap, mem["h"].cap)
      n == Min(Min(Len(nhp), Len(nhep)), Min(Len(nheq), room))
      stored == [mem EXCEPT !["Ne"].data = Combine(nhp, nhep, nheq, n),
                            !["h"].data = Prefix(nheq, mem["h"].cap)]
  IN  /\ pc = "ne"
      /\ Step("ne")
      /\ IF GADGET3
           THEN ReadBlock("NE  ", "Ne", 0, next)
           ELSE /\ reads' = reads \o <<Entry("NHP ", "Ne"), Entry("NHEP", "h"),
                                       Entry("NHEQ", "h")>>
                /\ IF Fits("Ne", NumPart) /\ Fits("h", NumPart)
                     THEN mem' = stored /\ pc' = next /\ oob' = oob
                     ELSE /\ oob' = TRUE
                          /\ \/ pc' = "crashed" /\ mem' = mem
                             \/ pc' = next /\ mem' = stored
      /\ ReadFrame

\* Line 108, under HELIUM.
ReadNHe ==
  /\ pc = "nhe"
  /\ Step("NHE ")
  /\ ReadBlock("NHE ", "NHep", 0, "nh")
  /\ ReadFrame

\* Line 111.
ReadNH0 ==
  /\ pc = "nh"
  /\ Step("NH  ")
  /\ ReadBlock("NH  ", "NH0", 0, "hsml")
  /\ ReadFrame

\* Line 115.
ReadHsml ==
  /\ pc = "hsml"
  /\ Step("HSML")
  /\ ReadBlock("HSML", "h", 0, "return")
  /\ ReadFrame

\* Line 157: return NumPart.
Return ==
  /\ pc = "return"
  /\ Step("return")
  /\ ret' = NumPart
  /\ pc' = "returned"
  /\ LoadFrame
  /\ UNCHANGED <<NumPart, P, mem, live, nextPtr, reads, allocRet, acquired,
                 oob, massPass, omegab>>

(* ------------------------------ free_parts ----------------------------- *)

\* free(p): NULL is a no-op, a live pointer is released, any other pointer
\* is a double or wild free.
RECURSIVE FreeEach(_, _, _)
FreeEach(ptrs, lv, bad) ==
  IF ptrs = <<>> THEN [live |-> lv, bad |-> bad]
  ELSE LET p == Head(ptrs) IN
       FreeEach(Tail(ptrs), lv \ {p}, bad \/ (p # NULL /\ p \notin lv))

\* Lines 174-187: free_parts(P).
free_parts ==
  LET ptrs == [i \in 1 .. Len(FreeOrder) |-> P[FreeOrder[i]]]
      after == FreeEach(ptrs, live, doubleFree)
  IN  /\ freeLog' = ptrs
      /\ live' = after.live
      /\ doubleFree' = after.bad

(* ------------------------------- the caller ---------------------------- *)

\* The caller's next call of load_snapshot(fname, StartPart, MaxRead, P, ...).
CallLoad ==
  /\ pc \in {"caller", "released"}
  /\ script # <<>>
  /\ StartPart' = Head(script)[1]
  /\ MaxRead' = Head(script)[2]
  /\ script' = Tail(script)
  /\ pc' = "header"
  /\ NumPart' = 0
  /\ reads' = <<>>
  /\ trail' = <<>>
  /\ allocRet' = -1
  /\ acquired' = {}
  /\ oob' = FALSE
  /\ massPass' = "none"
  /\ omegab' = <<>>
  /\ ret' = -1
  /\ UNCHANGED <<build, snapshot, paging, results, P, mem, live, nextPtr,
                 freeLog, doubleFree>>

\* The caller takes the count: a positive one comes with a filled buffer,
\* which it uses and then releases.
TakeResult ==
  /\ pc = "returned"
  /\ IF ret > 0
       THEN /\ results' = Append(results,
                 [start |-> StartPart, count |-> ret,
                  buf |-> [f \in Fields |-> mem[f].data]])
            /\ pc' = "release"
       ELSE /\ results' = results
            /\ pc' = "caller"
  /\ UNCHANGED <<build, snapshot, script, paging, StartPart, MaxRead, NumPart,
                 P, mem, live, nextPtr, reads, trail, allocRet, acquired,
                 freeLog, doubleFree, oob, massPass, omegab, ret>>

\* The caller's single free_parts(P) for that buffer.
Release ==
  /\ pc = "release"
  /\ free_parts
  /\ \/ pc' = "released"
     \/ oob /\ pc' = "crashed"
  /\ UNCHANGED <<build, snapshot, script, paging, results, StartPart, MaxRead,
                 NumPart, P, mem, nextPtr, reads, trail, allocRet, acquired,
                 oob, massPass, omegab, ret>>

(* ------------------------------ behaviours ----------------------------- *)

\* Counts of the target type: small ones, one whose np*3 overflows int and
\* one that does not fit int.
MaxSmall == 4

NpartChoices == (0 .. MaxSmall) \cup {IntMax - 3, 2 * IntMax + 3}

\* Header masses: types 0 and 1 with or without one, type 4 with one.
MassTables ==
  {[t \in Types |-> IF t = 0 THEN a ELSE IF t = 1 THEN b
                    ELSE IF t = 4 THEN 2 * FloatUlp ELSE 0] :
     a \in {0, FloatUlp + 1}, b \in {0, 2 * FloatUlp}}

Headers(pt) ==
  {[npart |-> [t \in Types |-> IF t = pt THEN n ELSE OtherNpart],
    mass |-> m, flag_cooling |-> c] :
     n \in NpartChoices, m \in MassTables, c \in BOOLEAN}

\* One call at an offset at the start, at the end or past it, or the three
\* calls [0,k), [k,N), [0,N).
SingleScripts(n) ==
  {<<<<s, m>>>> : s \in {0, 1, n, n + 1}, m \in {-1, 0, 1, 2, n + 1}}

PagingScripts(n) ==
  UNION {{<<<<0, k>>, <<k, m>>, <<0, n>>>> : m \in {n - k, 0}} :
           k \in {j \in {1, n - 1} : 0 < j /\ j < n}}

Init ==
  /\ PARTTYPE \in {0, 1}
  /\ GADGET3 \in BOOLEAN
  /\ HELIUM \in BOOLEAN
  /\ header \in Headers(PARTTYPE)
  /\ massDev \in {d \in 0 .. MaxDev :
                    d > 0 => header.mass[PARTTYPE] = 0 /\ d <= Npart(PARTTYPE)}
  /\ paging \in BOOLEAN
  /\ script \in IF paging THEN PagingScripts(Npart(PARTTYPE))
                          ELSE SingleScripts(Npart(PARTTYPE))
  /\ results = <<>>
  /\ StartPart = 0
  /\ MaxRead = 0
  /\ pc = "caller"
  /\ NumPart = 0
  /\ P = [f \in Fields |-> NULL]
  /\ mem = [f \in Fields |-> [cap |-> 0, data |-> <<>>]]
  /\ live = {}
  /\ nextPtr = 1
  /\ reads = <<>>
  /\ trail = <<>>
  /\ allocRet = -1
  /\ acquired = {}
  /\ freeLog = <<>>
  /\ doubleFree = FALSE
  /\ oob = FALSE
  /\ massPass = "none"
  /\ omegab = <<>>
  /\ ret = -1

Next ==
  \/ CallLoad
  \/ ReadHeader
  \/ ResolveRange
  \/ AllocateBuffer
  \/ ExitAllocFailed
  \/ ReadPos
  \/ ReadVel
  \/ ResolveMass
  \/ CheckMass
  \/ ComputeOmegab
  \/ ReadU
  \/ ReadElectronFraction
  \/ ReadNHe
  \/ ReadNH0
  \/ ReadHsml
  \/ Return
  \/ TakeResult
  \/ Release

Spec == Init /\ [][Next]_vars

(* -------------------------------- claims ------------------------------- *)

Avail == Npart(PARTTYPE)

Did(step) == \E i \in DOMAIN trail : trail[i] = step

Dead == {"exit0", "exit1", "crashed"}

Completed == pc \in {"returned", "release", "released"}

ReadsOf(tag) == {i \in DOMAIN reads : reads[i].tag = tag}

GasTags == {"U   ", "NHP ", "NHEP", "NHEQ", "NE  ", "NHE ", "NH  ", "HSML"}

\* The window's slice of a gas block, as stored on disk.
Slice(tag) ==
  [k \in 1 .. NumPart |-> DiskValue(tag, PARTTYPE, StartPart + k - 1, 0)]

\* C1: once the range is resolved NumPart is min(MaxRead, avail - StartPart)
\* for MaxRead > 0 and avail - StartPart otherwise, and a load that completes
\* returns that count.
C1_CountResolved ==
  LET rest == Avail - StartPart
      want == IF MaxRead > 0
                THEN (IF MaxRead <= rest THEN MaxRead ELSE rest)
                ELSE rest
  IN  /\ Did("resolve") => NumPart = want
      /\ Completed => ret = want

C1_Witness ==
  /\ pc = "returned"
  /\ MaxRead > 0
  /\ MaxRead < Avail - StartPart
  /\ StartPart > 0
  /\ ret = MaxRead

\* C2: a request that starts at or past the last particle of the type
\* resolves to count 0, allocates nothing, reads nothing and returns 0.
C2_StartPastEndIsNoOp ==
  (StartPart >= Avail /\ Did("resolve")) =>
     /\ NumPart = 0
     /\ allocRet = -1
     /\ acquired = {}
     /\ reads = <<>>
     /\ pc \notin Dead
     /\ Completed => ret = 0

\* C3: the windows [0,k) and [k,N), loaded by two calls, hold field by field
\* what one call for [0,N) holds, and their counts add up to N.
C3_Pagination ==
  (paging /\ Len(results) = 3) =>
     /\ results[1].count + results[2].count = Avail
     /\ results[3].count = Avail
     /\ \A f \in Fields :
          results[1].buf[f] \o results[2].buf[f] = results[3].buf[f]

\* C4: with a header mass for the target type every loaded particle has that
\* mass (in the buffer's single precision) and MASS is not read; without one
\* MASS is read once, for the resolved window, skipping exactly the other
\* types that have no header mass.
C4_MassResolution ==
  (Did("mass") /\ pc \notin Dead) =>
     IF header.mass[PARTTYPE] # 0
       THEN /\ ReadsOf("MASS") = {}
            /\ \A k \in 1 .. NumPart :
                 /\ k \in DOMAIN mem["Mass"].data
                 /\ mem["Mass"].data[k] = ToFloat(header.mass[PARTTYPE])
       ELSE /\ Cardinality(ReadsOf("MASS")) = 1
            /\ \A i \in ReadsOf("MASS") :
                 /\ reads[i].count = NumPart
                 /\ reads[i].start = StartPart
                 /\ reads[i].skip \in 0 .. (Pow2(N_TYPE) - 1)
                 /\ \A t \in Types :
                      Skipped(reads[i].skip, t) <=>
                        (t # PARTTYPE /\ header.mass[t] = 0)

\* C5: the scan passes exactly when every loaded particle has the mass of
\* the first; when it does not pass the process ends with no count, no
\* baryon fraction and no gas block read.
C5_MassUniformity ==
  LET m == mem["Mass"].data
      uniform == \A k \in DOMAIN m : m[k] = m[1]
  IN
  /\ massPass = "pass" => uniform
  /\ massPass = "fail" => ~uniform
  /\ massPass = "fail" =>
       /\ pc = "exit0"
       /\ ret = -1
       /\ omegab = <<>>
       /\ \A i \in DOMAIN reads : reads[i].tag \notin GasTags

\* C6: a gas load with cooling and separate NHP, NHEP, NHEQ blocks ends with
\* Ne[k] = NHP[k] + NHEP[k] + 2*NHEQ[k] and h[k] = HSML[k] for every particle.
C6_ElectronFraction ==
  (pc = "returned" /\ ret > 0 /\ IsGas /\ header.flag_cooling /\ ~GADGET3) =>
     \A k \in 1 .. NumPart :
        /\ k \in DOMAIN mem["Ne"].data
        /\ mem["Ne"].data[k] =
             Slice("NHP ")[k] + Slice("NHEP")[k] + 2 * Slice("NHEQ")[k]
        /\ k \in DOMAIN mem["h"].data
        /\ mem["h"].data[k] = Slice("HSML")[k]

\* C7: alloc_parts returns nonzero exactly when it acquired every field, and
\* after it returned zero nothing it acquired in that call is still held.
C7_AllOrNothing ==
  /\ allocRet = 1 <=>
       (Did("alloc") /\ Cardinality(acquired) = Len(AllocOrder))
  /\ allocRet = 0 => acquired \cap live = {}

\* C10: between a successful allocation and the return the count is positive
\* and every field has room for exactly that many particles.
C10_CapacityIsCount ==
  /\ pc = "alloc" => NumPart > 0
  /\ allocRet = 1 =>
       /\ NumPart > 0
       /\ \A i \in DOMAIN AllocOrder :
            mem[AllocOrder[i]].cap = NumPart * Width(AllocOrder[i])

Canon ==
  <<"header", "resolve", "alloc", "POS ", "VEL ", "mass", "check", "omegab">>
  \o (IF PARTTYPE = 0
        THEN <<"U   ">>
             \o (IF header.flag_cooling
                   THEN <<"ne">> \o (IF HELIUM THEN <<"NHE ">> ELSE <<>>)
                        \o <<"NH  ">>
                   ELSE <<>>)
             \o <<"HSML">>
        ELSE <<>>)
  \o <<"return">>

\* The blocks one step reads.
TagsOf(step) ==
  CASE step \in {"POS ", "VEL ", "U   ", "NHE ", "NH  ", "HSML"} -> <<step>>
    [] step = "mass" ->
         (IF header.mass[PARTTYPE] # 0 THEN <<>> ELSE <<"MASS">>)
    [] step = "ne" ->
         (IF GADGET3 THEN <<"NE  ">> ELSE <<"NHP ", "NHEP", "NHEQ">>)
    [] OTHER -> <<>>

RECURSIVE TagsAlong(_)
TagsAlong(steps) ==
  IF steps = <<>> THEN <<>>
  ELSE TagsOf(Head(steps)) \o TagsAlong(Tail(steps))

C9_Order ==
  /\ Len(trail) <= Len(Canon)
  /\ trail = SubSeq(Canon, 1, Len(trail))
  /\ [i \in DOMAIN reads |-> reads[i].tag] = TagsAlong(trail)
  /\ reads # <<>> => allocRet = 1
  /\ Cardinality(acquired) <= Len(AllocOrder)
  /\ PARTTYPE # 0 => \A i \in DOMAIN reads : reads[i].tag \notin GasTags
  /\ pc = "exit1" => trail[Len(trail)] = "alloc" /\ allocRet = 0
  /\ pc = "exit0" => trail[Len(trail)] = "check"

IntSafe == 3 * Avail <= IntMax

\* C3 on such snapshots.
C3_PaginationIntSafe == IntSafe => C3_Pagination

\* C4 on such snapshots.
C4_MassResolutionIntSafe == IntSafe => C4_MassResolution

\* C5 on such snapshots.
C5_MassUniformityIntSafe == IntSafe => C5_MassUniformity

\* C6 on such snapshots.
C6_ElectronFractionIntSafe == IntSafe => C6_ElectronFraction

\* C10 on such snapshots, for a window that starts inside the type.
C10_CapacityIsCountIntSafe ==
  (IntSafe /\ StartPart <= Avail) => C10_CapacityIsCount

=============================================================================
